---- MODULE Spec2Model ----
(***************************************************************************)
(* Model of parts of PINT: BinaryDDK.validate and                          *)
(* BinaryDDK.alternative_solutions (pint/models/binary_ddk.py), the        *)
(* relativistic Kepler solver _solve_kepler (DDGR_model.py) and the        *)
(* chi-squared grid functions of pint/gridutils.py.                        *)
(*                                                                         *)
(* Each part has its own specification over the shared variables; a        *)
(* specification leaves the variables of the other parts untouched.        *)
(***************************************************************************)
EXTENDS Integers, Sequences, FiniteSets, Bags, TLC

VARIABLES
    \* ---- BinaryDDK: the parent timing model seen by the component ----
    components,   \* astrometry components present in self._parent.components
    params,       \* proper-motion parameter names present in self._parent.params
    PX,           \* the parent's PX: kind "absent" (no such attribute),
                  \* "None" (value unset) or "value" (a number, in .value)
    superRaises,  \* TRUE when the base class's validate() raises
    vpc,          \* "idle" before validate() is called, "done" after
    raised,       \* what validate() raised: "none" or the exception class
    \* ---- BinaryDDK.alternative_solutions ----
    KIN,          \* self.KIN.quantity, degrees
    KOM,          \* self.KOM.quantity, degrees
    pm,           \* values of PMRA, PMDEC, PMELONG, PMELAT of the parent
    apc,          \* "idle" before alternative_solutions(), "done" after
    araised,      \* what alternative_solutions() raised, or "none"
    solutions,    \* the returned list of (KIN, KOM) pairs
    \* ---- _solve_kepler(M1, M2, n, ARTOL) ----
    M1,           \* mass of the pulsar
    M2,           \* mass of the companion
    n,            \* orbital angular frequency, in units of 1/NScale
    ARTOLInv,     \* the tolerance is ARTOL = 1/ARTOLInv
    arr0,         \* local arr0 (lengths are in units of 1/LenScale)
    arr,          \* local arr
    arr_old,      \* local arr_old
    ar,           \* local ar, assigned in the loop body
    kpc,          \* "start", "while" (at the loop test) or "done" (returned)
    \* ---- gridutils: the fitter, the call in progress and its locals ----
    heap,         \* the model objects alive, by object identity
    ftrModel,     \* ftr.model: the identity of the fitter's current model
    parvalues,    \* argument parvalues: the two arrays of grid values
    par_funcs,    \* arguments par1_func, par2_func of grid_chisq_derived
    ncpu,         \* argument ncpu of grid_chisq_mp
    gpc,          \* "idle" or the name of the function being executed
    savemod,      \* local savemod (an object identity), 0 outside a call
    it,           \* number of grid points the serial loop has completed
    chi2,         \* local chi2
    par1,         \* local par1 of grid_chisq_derived
    par2,         \* local par2 of grid_chisq_derived
    tasks,        \* grid_chisq_mp: the calls of _grid_doonefit given to the pool
    fitlog,       \* the calls of fit_toas() during the call in progress: a bag
                  \* of <<value of parnames[0], value of parnames[1], chi2>>
    callModel,    \* ftr.model when the latest call was made
    callState,    \* parameters of that model object when the call was made
    ret,          \* what each function returned, once it has returned
    \* ---- model_builder: get_model / get_model_new on a par file ----
    binary,       \* the name on the par file's BINARY line
    supplied,     \* the binary parameters the par file has lines for
    bfunc,        \* the builder function called, "none" before the call
    braised,      \* the exception the call raised, or "none"
    bmodel        \* the binary component of the returned model, or "none"

ddkVars == <<components, params, PX, superRaises, vpc, raised>>
altVars == <<KIN, KOM, pm, apc, araised, solutions>>
kepVars == <<M1, M2, n, ARTOLInv, arr0, arr, arr_old, ar, kpc>>
gridVars == <<heap, ftrModel, parvalues, par_funcs, ncpu, gpc, savemod, it,
              chi2, par1, par2, tasks, fitlog, callModel, callState, ret>>
bldVars == <<binary, supplied, bfunc, braised, bmodel>>
vars == <<ddkVars, altVars, kepVars, gridVars, bldVars>>

----------------------------------------------------------------------------
(* BinaryDDK.validate                                                      *)

ComponentNames == {"AstrometryEquatorial", "AstrometryEcliptic"}
PMNames == {"PMRA", "PMDEC", "PMELONG", "PMELAT"}
PXValues == {-1, 0, 1, 2}
PXStates ==
    {[kind |-> "absent", value |-> 0], [kind |-> "None", value |-> 0]}
        \cup {[kind |-> "value", value |-> v] : v \in PXValues}

\* Exception classes; MissingParameter derives from TimingModelError in
\* pint.models.timing_model, so raising the former is raising the latter.
IsA(exc, cls) ==
    \/ exc = cls
    \/ exc = "MissingParameter" /\ cls = "TimingModelError"

\* Variant of the proper-motion check that needs both parameters of the pair
\* to be missing (`and` for `or`).
ProperMotionMissingBoth(comps, pars) ==
    IF "AstrometryEquatorial" \in comps
    THEN "PMRA" \notin pars /\ "PMDEC" \notin pars
    ELSE IF "AstrometryEcliptic" \in comps
         THEN "PMELONG" \notin pars /\ "PMELAT" \notin pars
         ELSE FALSE

\* The proper-motion check of validate(): TRUE when it raises.
ProperMotionMissing(comps, pars) ==
    IF "AstrometryEquatorial" \in comps
    THEN "PMRA" \notin pars \/ "PMDEC" \notin pars
    ELSE IF "AstrometryEcliptic" \in comps
         THEN "PMELONG" \notin pars \/ "PMELAT" \notin pars
         ELSE FALSE

\* Variant of the PX check that accepts PX = 0 (`<` for `<=`).
PXCheckStrict(px) ==
    IF px.kind = "absent" THEN "MissingParameter"
    ELSE IF px.kind = "None" THEN "TypeError"
    ELSE IF px.value < 0 THEN "TimingModelError"
    ELSE "none"

\* The PX check of validate(): the exception it raises, or "none".
\* `PX.value <= 0.0` is evaluated before `PX.value is None`; comparing
\* None with a float raises TypeError.
PXCheck(px) ==
    IF px.kind = "absent" THEN "MissingParameter"
    ELSE IF px.kind = "None" THEN "TypeError"
    ELSE IF px.value <= 0 THEN "TimingModelError"
    ELSE "none"

\* Variant of validate() without the proper-motion check.
ValidateOutcomeNoPM(comps, pars, px, baseRaises) ==
    IF baseRaises THEN "BaseValidateError" ELSE PXCheck(px)

\* What validate() raises ("none" when it returns normally).
ValidateOutcome(comps, pars, px, baseRaises) ==
    IF baseRaises THEN "BaseValidateError"
    ELSE IF ProperMotionMissing(comps, pars) THEN "MissingParameter"
    ELSE PXCheck(px)

DDKIdle ==
    /\ components = {}
    /\ params = {}
    /\ PX = [kind |-> "absent", value |-> 0]
    /\ superRaises = FALSE
    /\ vpc = "idle"
    /\ raised = "none"

AltIdle ==
    /\ KIN = 0
    /\ KOM = 0
    /\ pm = [p \in PMNames |-> 0]
    /\ apc = "idle"
    /\ araised = "none"
    /\ solutions = <<>>

KepIdle ==
    /\ M1 = 1
    /\ M2 = 1
    /\ n = 1
    /\ ARTOLInv = 1
    /\ arr0 = 0
    /\ arr = 0
    /\ arr_old = 0
    /\ ar = 0
    /\ kpc = "start"

GridIdle ==
    /\ heap = <<>>
    /\ ftrModel = 0
    /\ parvalues = <<>>
    /\ par_funcs = <<>>
    /\ ncpu = 0
    /\ gpc = "idle"
    /\ savemod = 0
    /\ it = 0
    /\ chi2 = <<>>
    /\ par1 = <<>>
    /\ par2 = <<>>
    /\ tasks = <<>>
    /\ fitlog = EmptyBag
    /\ callModel = 0
    /\ callState = <<>>
    /\ ret = <<>>

BuilderIdle ==
    /\ binary = "BT"
    /\ supplied = {}
    /\ bfunc = "none"
    /\ braised = "none"
    /\ bmodel = "none"

InitValidate ==
    /\ components \in SUBSET ComponentNames
    /\ params \in SUBSET PMNames
    /\ PX \in PXStates
    /\ superRaises \in BOOLEAN
    /\ vpc = "idle"
    /\ raised = "none"
    /\ AltIdle
    /\ KepIdle
    /\ GridIdle
    /\ BuilderIdle

Validate ==
    /\ vpc = "idle"
    /\ raised' = ValidateOutcome(components, params, PX, superRaises)
    /\ vpc' = "done"
    /\ UNCHANGED <<components, params, PX, superRaises>>
    /\ UNCHANGED <<altVars, kepVars, gridVars, bldVars>>

NextValidate == Validate

SpecValidate == InitValidate /\ [][NextValidate]_vars

----------------------------------------------------------------------------
(* BinaryDDK.alternative_solutions                                         *)

\* Angles are whole degrees.  Proper motions are drawn from PMValues, for
\* which arctan2 is a whole number of degrees.
KINValues == {-30, 0, 70, 180, 200, 400}
KOMValues == {-135, -30, 0, 90, 270, 405}
PMValues == {-1, 0, 1}

\* np.arctan2(y, x).to(u.deg) for y, x in PMValues; the result is in
\* (-180, 180] and arctan2(0, 0) = 0.
ArcTan2Deg(y, x) ==
    CASE x = 1 /\ y = 0 -> 0
      [] x = 1 /\ y = 1 -> 45
      [] x = 0 /\ y = 1 -> 90
      [] x = -1 /\ y = 1 -> 135
      [] x = -1 /\ y = 0 -> 180
      [] x = -1 /\ y = -1 -> -135
      [] x = 0 /\ y = -1 -> -90
      [] x = 1 /\ y = -1 -> -45
      [] x = 0 /\ y = 0 -> 0

\* The properties PMLONG_DDK and PMLAT_DDK: the name of the parent's
\* parameter they return, "None" when the model has no astrometry component.
PMLONG_DDK(comps) ==
    IF "AstrometryEquatorial" \in comps THEN "PMRA"
    ELSE IF "AstrometryEcliptic" \in comps THEN "PMELONG"
    ELSE "None"

PMLAT_DDK(comps) ==
    IF "AstrometryEquatorial" \in comps THEN "PMDEC"
    ELSE IF "AstrometryEcliptic" \in comps THEN "PMELAT"
    ELSE "None"

\* Variant of the list whose second entry is not flipped by 180 degrees.
AltSolutionsListNoFlip(x0, y0, KOM_zero) ==
    << <<x0, y0>>,
       <<x0, (2 * KOM_zero - y0) % 360>>,
       <<(180 - x0) % 360, (2 * KOM_zero - y0) % 360>>,
       <<(180 - x0) % 360, (y0 + 180) % 360>> >>

\* The list built by alternative_solutions() from x0 = KIN, y0 = KOM and
\* KOM_zero.  Python's % with a positive modulus is TLA+'s %.
AltSolutionsList(x0, y0, KOM_zero) ==
    << <<x0, y0>>,
       <<x0, (2 * KOM_zero - y0 - 180) % 360>>,
       <<(180 - x0) % 360, (2 * KOM_zero - y0) % 360>>,
       <<(180 - x0) % 360, (y0 + 180) % 360>> >>

InitAlt ==
    /\ components \in SUBSET ComponentNames
    /\ params = {}
    /\ PX = [kind |-> "absent", value |-> 0]
    /\ superRaises = FALSE
    /\ vpc = "idle"
    /\ raised = "none"
    /\ KIN \in KINValues
    /\ KOM \in KOMValues
    /\ pm \in [PMNames -> PMValues]
    /\ apc = "idle"
    /\ araised = "none"
    /\ solutions = <<>>
    /\ KepIdle
    /\ GridIdle
    /\ BuilderIdle

\* alternative_solutions(): `None.quantity` raises AttributeError when
\* neither astrometry component is present.
AlternativeSolutions ==
    /\ apc = "idle"
    /\ IF PMLAT_DDK(components) = "None"
       THEN /\ araised' = "AttributeError"
            /\ solutions' = solutions
       ELSE /\ araised' = "none"
            /\ solutions' =
                 AltSolutionsList(KIN, KOM,
                     ArcTan2Deg(pm[PMLAT_DDK(components)],
                                pm[PMLONG_DDK(components)]))
    /\ apc' = "done"
    /\ UNCHANGED <<KIN, KOM, pm>>
    /\ UNCHANGED <<ddkVars, kepVars, gridVars, bldVars>>

NextAlt == AlternativeSolutions

SpecAlt == InitAlt /\ [][NextAlt]_vars

----------------------------------------------------------------------------
(* _solve_kepler                                                           *)
(*                                                                         *)
(* Floating point is modelled in fixed point, in units with G = c = 1:     *)
(* a length a is the integer a * LenScale, the angular frequency is        *)
(* n / NScale, and the dimensionless factor of the relativistic            *)
(* correction is carried with FracScale steps per unit.  The inputs are    *)
(* chosen so that the factor is positive (no NaN).                         *)

G == 1
c == 1
LenScale == 10
NScale == 1000
FracScale == 1000

MassValues == {1, 2}
NValues == {2, 3, 4}
ARTOLInvValues == {2, 10, 100, 1000}

\* Integer cube root (floor), for 0 <= x < 10^9.
ICbrt(x) == CHOOSE r \in 0..1000 : r * r * r <= x /\ (r + 1) * (r + 1) * (r + 1) > x

Abs(x) == IF x < 0 THEN -x ELSE x

\* arr0 = (G * MTOT / n**2) ** (1/3)
KeplerArr0(m1, m2, nn) ==
    ICbrt(G * (m1 + m2) * ((NScale * NScale) \div (nn * nn))
              * LenScale * LenScale * LenScale)

\* 1 + (M1 * M2 / MTOT**2 - 9) * (G * MTOT / (2 * a * c**2)), times FracScale
RelBase(m1, m2, a) ==
    FracScale
      + (FracScale * (m1 * m2 - 9 * (m1 + m2) * (m1 + m2)) * G * LenScale)
            \div (2 * a * (m1 + m2) * c * c)

\* arr0 * (1 + (M1*M2/MTOT**2 - 9) * (G*MTOT / (2*a*c**2))) ** (2/3)
RelStep(m1, m2, a0, a) ==
    (a0 * ICbrt(RelBase(m1, m2, a) * RelBase(m1, m2, a) * FracScale))
        \div FracScale

\* np.fabs((a - aold) / a) > ARTOL, for a > 0
NotConverged(a, aold, tolInv) == Abs(a - aold) * tolInv > Abs(a)

InitKepler ==
    /\ M1 \in MassValues
    /\ M2 \in MassValues
    /\ n \in NValues
    /\ ARTOLInv \in ARTOLInvValues
    /\ arr0 = 0
    /\ arr = 0
    /\ arr_old = 0
    /\ ar = 0
    /\ kpc = "start"
    /\ DDKIdle
    /\ AltIdle
    /\ GridIdle
    /\ BuilderIdle

\* Lines 37-44: the non-relativistic value and the first relativistic one.
KeplerFirst ==
    /\ kpc = "start"
    /\ arr0' = KeplerArr0(M1, M2, n)
    /\ arr_old' = arr0'
    /\ arr' = RelStep(M1, M2, arr0', arr0')
    /\ kpc' = "while"
    /\ UNCHANGED <<M1, M2, n, ARTOLInv, ar>>
    /\ UNCHANGED <<ddkVars, altVars, gridVars, bldVars>>

\* Lines 46-50: one pass of the loop body.  The new value is assigned to
\* `ar`; `arr` keeps its value.
KeplerLoopBody ==
    /\ kpc = "while"
    /\ NotConverged(arr, arr_old, ARTOLInv)
    /\ arr_old' = arr
    /\ ar' = RelStep(M1, M2, arr0, arr)
    /\ UNCHANGED <<M1, M2, n, ARTOLInv, arr0, arr, kpc>>
    /\ UNCHANGED <<ddkVars, altVars, gridVars, bldVars>>

\* Line 52: the loop test fails and (arr0, arr) is returned.
KeplerReturn ==
    /\ kpc = "while"
    /\ ~NotConverged(arr, arr_old, ARTOLInv)
    /\ kpc' = "done"
    /\ UNCHANGED <<M1, M2, n, ARTOLInv, arr0, arr, arr_old, ar>>
    /\ UNCHANGED <<ddkVars, altVars, gridVars, bldVars>>

NextKepler == KeplerFirst \/ KeplerLoopBody \/ KeplerReturn

SpecKepler == InitKepler /\ [][NextKepler]_vars

----------------------------------------------------------------------------
(* Properties of _solve_kepler, checked under SpecKepler                   *)

MaxIter == 8

\* The iterates a_0 = arr0, a_{k+1} = f(a_k) of the current inputs.
RECURSIVE Iterate(_)
Iterate(k) ==
    IF k = 0 THEN KeplerArr0(M1, M2, n)
    ELSE RelStep(M1, M2, KeplerArr0(M1, M2, n), Iterate(k - 1))

\* The factor of the correction stays positive for the modelled inputs.
KeplerInputsRegular ==
    \A k \in 0..MaxIter : RelBase(M1, M2, Iterate(k)) > 0

\* C1: the returned arr is an iterate a_K, K >= 1, whose fractional
\* difference from the preceding iterate, |a_K - a_{K-1}| / |a_K|, is at
\* most ARTOL.
C1_ReturnsConvergedIterate ==
    kpc = "done" =>
        \E K \in 1..MaxIter :
            /\ arr = Iterate(K)
            /\ ~NotConverged(Iterate(K), Iterate(K - 1), ARTOLInv)

----------------------------------------------------------------------------
(* gridutils: grid_chisq, grid_chisq_derived, grid_chisq_mp                *)
(*                                                                         *)
(* The fitter's model has the two gridded parameters M2 and SINI and one   *)
(* other parameter F0.  A 2-D array is a sequence of rows.                 *)

MaxGrid == 2    \* largest length of an array of grid values
MaxVal == 2     \* largest starting value of the free parameter and of a grid
MaxCpu == 2     \* largest ncpu

ParNames == {"M2", "SINI", "F0"}
parnames == <<"M2", "SINI">>
FuncPairs == {<<"first", "second">>, <<"sum", "second">>}

BaseId == 1

\* The model of the base fitter; f0 is the starting value of F0.
BaseModel(f0) ==
    [value |-> [p \in ParNames |-> IF p = "F0" THEN f0 ELSE 0],
     frozen |-> [p \in ParNames |-> p = "SINI"]]

NoModel ==
    [value |-> [p \in ParNames |-> 0], frozen |-> [p \in ParNames |-> FALSE]]

\* An array of len consecutive grid values starting at start.
GridValues(start, len) == [i \in 1..len |-> start + i - 1]

\* The parameter values that fit the data best.
BestFit == [p \in ParNames |-> CASE p = "M2" -> 1 [] p = "SINI" -> 0 [] p = "F0" -> MaxVal]

StepToward(v, target) ==
    IF v < target THEN v + 1 ELSE IF v > target THEN v - 1 ELSE v

RECURSIVE SumSquares(_, _)
SumSquares(vals, names) ==
    IF names = {} THEN 0
    ELSE LET p == CHOOSE q \in names : TRUE
         IN  (vals[p] - BestFit[p]) * (vals[p] - BestFit[p])
               + SumSquares(vals, names \ {p})

\* ftr.fit_toas() on model m: one step of every free parameter towards the
\* best fit; returns the chi-squared of the updated model.
FitToas(m) ==
    LET fitted == [p \in ParNames |->
                     IF m.frozen[p] THEN m.value[p]
                     ELSE StepToward(m.value[p], BestFit[p])]
    IN  [model |-> [m EXCEPT !.value = fitted],
         chi2 |-> SumSquares(fitted, ParNames)]

\* getattr(model, parname).frozen = True for every parname in names
Freeze(m, names) ==
    [m EXCEPT !.frozen = [p \in ParNames |->
        IF \E k \in 1..Len(names) : names[k] = p THEN TRUE ELSE m.frozen[p]]]

\* getattr(model, parname).quantity = value for every (parname, value)
SetValues(m, names, values) ==
    [m EXCEPT !.value = [p \in ParNames |->
        IF \E k \in 1..Len(names) : names[k] = p
        THEN values[CHOOSE k \in 1..Len(names) : names[k] = p]
        ELSE m.value[p]]]

\* Variant of the mesh with matrix indexing (indexing="ij"): shape
\* (len(pv[0]), len(pv[1])).
MeshGridIJ(pv) ==
    << [i \in 1..Len(pv[1]) |-> [j \in 1..Len(pv[2]) |-> pv[1][i]]],
       [i \in 1..Len(pv[1]) |-> [j \in 1..Len(pv[2]) |-> pv[2][j]]] >>

\* np.meshgrid(*pv) for two arrays (indexing="xy"): two arrays of shape
\* (len(pv[1]), len(pv[0])); the first repeats pv[0] along every row, the
\* second repeats pv[1] down every column.
MeshGrid(pv) ==
    << [j \in 1..Len(pv[2]) |-> [i \in 1..Len(pv[1]) |-> pv[1][i]]],
       [j \in 1..Len(pv[2]) |-> [i \in 1..Len(pv[1]) |-> pv[2][j]]] >>

Shape(a) == <<Len(a), Len(a[1])>>
Size(a) == Len(a) * Len(a[1])

\* np.zeros(shape)
Zeros(shape) == [j \in 1..shape[1] |-> [i \in 1..shape[2] |-> 0]]

\* it.multi_index of np.nditer at its k-th element (k = 1, 2, ...), row-major
MultiIndex(k, shape) ==
    <<((k - 1) \div shape[2]) + 1, ((k - 1) % shape[2]) + 1>>

\* a.flatten(), row-major
Flatten(a) ==
    [k \in 1..Size(a) |->
        a[MultiIndex(k, Shape(a))[1]][MultiIndex(k, Shape(a))[2]]]

\* a[idx] = v
Store(a, idx, v) == [a EXCEPT ![idx[1]][idx[2]] = v]

\* The evaluation of par1_func / par2_func
ApplyFunc(f, axis1, axis2) ==
    CASE f = "first" -> axis1
      [] f = "second" -> axis2
      [] f = "sum" -> axis1 + axis2

\* Variant in which the grid model is left installed.
RestoredModelNone(saved, grid) == grid

\* The model the restoring assignment `ftr.model = savemod` installs.
RestoredModel(saved, grid) == saved

NotReturned ==
    [returned |-> FALSE, chi2 |-> <<>>, par1 |-> <<>>, par2 |-> <<>>,
     fits |-> EmptyBag]

FuncNames == {"grid_chisq", "grid_chisq_derived", "grid_chisq_mp"}

InitGrid ==
    /\ \E f0 \in 0..MaxVal : heap = [id \in {BaseId} |-> BaseModel(f0)]
    /\ ftrModel = BaseId
    /\ \E s0 \in 0..1, s1 \in 0..1, n0 \in 1..MaxGrid, n1 \in 1..MaxGrid :
           parvalues = <<GridValues(s0, n0), GridValues(s1, n1)>>
    /\ par_funcs \in FuncPairs
    /\ ncpu = 0
    /\ gpc = "idle"
    /\ savemod = 0
    /\ it = 0
    /\ chi2 = <<>>
    /\ par1 = <<>>
    /\ par2 = <<>>
    /\ tasks = <<>>
    /\ fitlog = EmptyBag
    /\ callModel = 0
    /\ callState = NoModel
    /\ ret = [f \in FuncNames |-> NotReturned]
    /\ DDKIdle
    /\ AltIdle
    /\ KepIdle
    /\ BuilderIdle

Others == <<ddkVars, altVars, kepVars, bldVars>>

NewId == ftrModel + 1

\* grid_chisq, lines 113-124: save the model, install a frozen deep copy.
GridChisqCall ==
    /\ gpc = "idle"
    /\ gpc' = "grid_chisq"
    /\ callModel' = ftrModel
    /\ callState' = heap[ftrModel]
    /\ savemod' = ftrModel
    /\ heap' = [id \in DOMAIN heap \cup {NewId} |->
                  IF id = NewId THEN Freeze(heap[ftrModel], parnames)
                  ELSE heap[id]]
    /\ ftrModel' = NewId
    /\ chi2' = Zeros(Shape(MeshGrid(parvalues)[1]))
    /\ it' = 0
    /\ fitlog' = EmptyBag
    /\ UNCHANGED <<parvalues, par_funcs, ncpu, par1, par2, tasks, ret>>
    /\ UNCHANGED Others

\* grid_chisq, lines 125-128: one pass of the loop over the grid.
GridChisqStep ==
    /\ gpc = "grid_chisq"
    /\ it < Size(chi2)
    /\ LET out == MeshGrid(parvalues)
           idx == MultiIndex(it + 1, Shape(out[1]))
           m == SetValues(heap[ftrModel], parnames,
                          <<out[1][idx[1]][idx[2]], out[2][idx[1]][idx[2]]>>)
           fit == FitToas(m)
       IN  /\ heap' = [heap EXCEPT ![ftrModel] = fit.model]
           /\ chi2' = Store(chi2, idx, fit.chi2)
           /\ fitlog' = fitlog (+) SetToBag({<<m.value[parnames[1]],
                                               m.value[parnames[2]],
                                               fit.chi2>>})
    /\ it' = it + 1
    /\ UNCHANGED <<ftrModel, parvalues, par_funcs, ncpu, gpc, savemod, par1,
                   par2, tasks, callModel, callState, ret>>
    /\ UNCHANGED Others

\* grid_chisq, lines 136-137: restore the saved model and return chi2.  The
\* grid model is no longer referenced.
GridChisqReturn ==
    /\ gpc = "grid_chisq"
    /\ it = Size(chi2)
    /\ ftrModel' = RestoredModel(savemod, ftrModel)
    /\ heap' = [id \in (DOMAIN heap \ {ftrModel}) \cup {ftrModel'} |-> heap[id]]
    /\ ret' = [ret EXCEPT !["grid_chisq"] =
                 [returned |-> TRUE, chi2 |-> chi2, par1 |-> <<>>,
                  par2 |-> <<>>, fits |-> fitlog]]
    /\ gpc' = "idle"
    /\ savemod' = 0
    /\ it' = 0
    /\ chi2' = <<>>
    /\ fitlog' = EmptyBag
    /\ UNCHANGED <<parvalues, par_funcs, ncpu, par1, par2, tasks, callModel,
                   callState>>
    /\ UNCHANGED Others

\* grid_chisq_derived, lines 181-199: as grid_chisq; par1_name and par2_name
\* are parnames[0] and parnames[1], axis1_grid and axis2_grid are
\* parvalues[0] and parvalues[1].
GridDerivedCall ==
    /\ gpc = "idle"
    /\ gpc' = "grid_chisq_derived"
    /\ callModel' = ftrModel
    /\ callState' = heap[ftrModel]
    /\ savemod' = ftrModel
    /\ heap' = [id \in DOMAIN heap \cup {NewId} |->
                  IF id = NewId THEN Freeze(heap[ftrModel], parnames)
                  ELSE heap[id]]
    /\ ftrModel' = NewId
    /\ chi2' = Zeros(<<Len(parvalues[2]), Len(parvalues[1])>>)
    /\ par1' = Zeros(<<Len(parvalues[2]), Len(parvalues[1])>>)
    /\ par2' = Zeros(<<Len(parvalues[2]), Len(parvalues[1])>>)
    /\ it' = 0
    /\ fitlog' = EmptyBag
    /\ UNCHANGED <<parvalues, par_funcs, ncpu, tasks, ret>>
    /\ UNCHANGED Others

\* grid_chisq_derived, lines 202-211: one pass of the inner loop; ii runs
\* over axis1_grid in the outer loop, jj over axis2_grid in the inner one.
GridDerivedStep ==
    /\ gpc = "grid_chisq_derived"
    /\ it < Size(chi2)
    /\ LET ii == (it \div Len(parvalues[2])) + 1
           jj == (it % Len(parvalues[2])) + 1
           p1 == ApplyFunc(par_funcs[1], parvalues[1][ii], parvalues[2][jj])
           p2 == ApplyFunc(par_funcs[2], parvalues[1][ii], parvalues[2][jj])
           m == SetValues(heap[ftrModel], parnames, <<p1, p2>>)
           fit == FitToas(m)
       IN  /\ par1' = Store(par1, <<jj, ii>>, p1)
           /\ par2' = Store(par2, <<jj, ii>>, p2)
           /\ heap' = [heap EXCEPT ![ftrModel] = fit.model]
           /\ chi2' = Store(chi2, <<jj, ii>>, fit.chi2)
           /\ fitlog' = fitlog (+) SetToBag({<<m.value[parnames[1]],
                                               m.value[parnames[2]],
                                               fit.chi2>>})
    /\ it' = it + 1
    /\ UNCHANGED <<ftrModel, parvalues, par_funcs, ncpu, gpc, savemod, tasks,
                   callModel, callState, ret>>
    /\ UNCHANGED Others

\* grid_chisq_derived, lines 218-219: restore the saved model and return.
GridDerivedReturn ==
    /\ gpc = "grid_chisq_derived"
    /\ it = Size(chi2)
    /\ ftrModel' = RestoredModel(savemod, ftrModel)
    /\ heap' = [id \in (DOMAIN heap \ {ftrModel}) \cup {ftrModel'} |-> heap[id]]
    /\ ret' = [ret EXCEPT !["grid_chisq_derived"] =
                 [returned |-> TRUE, chi2 |-> chi2, par1 |-> par1,
                  par2 |-> par2, fits |-> fitlog]]
    /\ gpc' = "idle"
    /\ savemod' = 0
    /\ it' = 0
    /\ chi2' = <<>>
    /\ par1' = <<>>
    /\ par2' = <<>>
    /\ fitlog' = EmptyBag
    /\ UNCHANGED <<parvalues, par_funcs, ncpu, tasks, callModel, callState>>
    /\ UNCHANGED Others

\* The argument tuples pool.map() zips for the calls of _grid_doonefit:
\* list(zip(*[x.flatten() for x in out])).
TaskArgs(out) ==
    [k \in 1..Size(out[1]) |-> <<Flatten(out[1])[k], Flatten(out[2])[k]>>]

\* Variant of the worker's set-up that sets the values without freezing.
DoOneFitModelNoFreeze(ftrmodel, names, values) ==
    SetValues(ftrmodel, names, values)

\* _grid_doonefit, lines 36-41: the private copy of the fitter's model with
\* the gridded parameters frozen and set.
DoOneFitModel(ftrmodel, names, values) ==
    SetValues(Freeze(ftrmodel, names), names, values)

\* Number of calls a pool worker has taken and not finished.
InProgress == Cardinality({k \in 1..Len(tasks) : tasks[k].st \in {"taken", "setup"}})

\* grid_chisq_mp, lines 68-83, up to handing the calls to the pool.
GridChisqMPCall ==
    /\ gpc = "idle"
    /\ gpc' = "grid_chisq_mp"
    /\ \E cpus \in 1..MaxCpu : ncpu' = cpus
    /\ callModel' = ftrModel
    /\ callState' = heap[ftrModel]
    /\ chi2' = Zeros(Shape(MeshGrid(parvalues)[1]))
    /\ tasks' = [k \in 1..Size(MeshGrid(parvalues)[1]) |->
                   [st |-> "queued",
                    args |-> TaskArgs(MeshGrid(parvalues))[k],
                    myftr |-> NoModel,
                    result |-> 0]]
    /\ fitlog' = EmptyBag
    /\ UNCHANGED <<heap, ftrModel, parvalues, par_funcs, savemod, it, par1,
                   par2, ret>>
    /\ UNCHANGED Others

\* A free pool worker takes the next queued call; it receives its own
\* (pickled) copy of the fitter.
PoolTake(k) ==
    /\ gpc = "grid_chisq_mp"
    /\ tasks[k].st = "queued"
    /\ \A l \in 1..(k - 1) : tasks[l].st # "queued"
    /\ InProgress < ncpu
    /\ tasks' = [tasks EXCEPT ![k].st = "taken", ![k].myftr = heap[ftrModel]]
    /\ UNCHANGED <<heap, ftrModel, parvalues, par_funcs, ncpu, gpc, savemod,
                   it, chi2, par1, par2, fitlog, callModel, callState, ret>>
    /\ UNCHANGED Others

\* _grid_doonefit, lines 36-41, in the worker that took call k.
DoOneFitSetup(k) ==
    /\ gpc = "grid_chisq_mp"
    /\ tasks[k].st = "taken"
    /\ tasks' = [tasks EXCEPT
                   ![k].st = "setup",
                   ![k].myftr = DoOneFitModel(tasks[k].myftr, parnames,
                                              tasks[k].args)]
    /\ UNCHANGED <<heap, ftrModel, parvalues, par_funcs, ncpu, gpc, savemod,
                   it, chi2, par1, par2, fitlog, callModel, callState, ret>>
    /\ UNCHANGED Others

\* _grid_doonefit, line 42: the fit; the worker's copy dies with the call.
DoOneFitReturn(k) ==
    /\ gpc = "grid_chisq_mp"
    /\ tasks[k].st = "setup"
    /\ tasks' = [tasks EXCEPT
                   ![k].st = "finished",
                   ![k].result = FitToas(tasks[k].myftr).chi2,
                   ![k].myftr = NoModel]
    /\ fitlog' = fitlog (+) SetToBag({<<tasks[k].myftr.value[parnames[1]],
                                        tasks[k].myftr.value[parnames[2]],
                                        FitToas(tasks[k].myftr).chi2>>})
    /\ UNCHANGED <<heap, ftrModel, parvalues, par_funcs, ncpu, gpc, savemod,
                   it, chi2, par1, par2, callModel, callState, ret>>
    /\ UNCHANGED Others

\* The list pool.map() returns: the results in the order of the calls.
PoolMapResults(ts) == [k \in 1..Len(ts) |-> ts[k].result]

\* grid_chisq_mp, lines 84-85: chi2[it.multi_index] = results[j] for all j.
Collect(results, shape) ==
    [j \in 1..shape[1] |-> [i \in 1..shape[2] |->
        results[CHOOSE k \in 1..Len(results) : MultiIndex(k, shape) = <<j, i>>]]]

\* grid_chisq_mp, lines 78-87: pool.map() has all results; fill and return.
GridChisqMPReturn ==
    /\ gpc = "grid_chisq_mp"
    /\ \A k \in 1..Len(tasks) : tasks[k].st = "finished"
    /\ ret' = [ret EXCEPT !["grid_chisq_mp"] =
                 [returned |-> TRUE,
                  chi2 |-> Collect(PoolMapResults(tasks), Shape(chi2)),
                  par1 |-> <<>>, par2 |-> <<>>, fits |-> fitlog]]
    /\ gpc' = "idle"
    /\ ncpu' = 0
    /\ chi2' = <<>>
    /\ tasks' = <<>>
    /\ fitlog' = EmptyBag
    /\ UNCHANGED <<heap, ftrModel, parvalues, par_funcs, savemod, it, par1,
                   par2, callModel, callState>>
    /\ UNCHANGED Others

MaxTasks == MaxGrid * MaxGrid

NextGrid ==
    \/ GridChisqCall
    \/ GridChisqStep
    \/ GridChisqReturn
    \/ GridDerivedCall
    \/ GridDerivedStep
    \/ GridDerivedReturn
    \/ GridChisqMPCall
    \/ \E k \in 1..MaxTasks : k <= Len(tasks) /\ PoolTake(k)
    \/ \E k \in 1..MaxTasks : k <= Len(tasks) /\ DoOneFitSetup(k)
    \/ \E k \in 1..MaxTasks : k <= Len(tasks) /\ DoOneFitReturn(k)
    \/ GridChisqMPReturn

SpecGrid == InitGrid /\ [][NextGrid]_vars

----------------------------------------------------------------------------
(* model_builder: get_model and get_model_new                              *)
(*                                                                         *)
(* A par file is its BINARY line and the binary parameters it has lines    *)
(* for.  For BINARY DDK the parent model the builder assembles is the      *)
(* state BinaryDDK.validate reads (components, params, PX).                *)

BinaryNames == {"BT", "ELL1", "ELL1H", "DDK", "T2", "ELLL1"}
BinaryParNames == {"PB", "A1", "T0", "TASC", "H3"}

\* Variant of the registry check that accepts every name.
RegisteredBinariesAny == BinaryNames

\* The binary models with a registered component class.
RegisteredBinaries == {"BT", "ELL1", "ELL1H", "DDK"}

\* The parameters whose absence the component's validate() answers with
\* MissingParameter.
RequiredParams(name) ==
    CASE name = "BT" -> {"PB", "A1", "T0"}
      [] name = "ELL1" -> {"PB", "A1", "TASC"}
      [] name = "ELL1H" -> {"PB", "A1", "TASC", "H3"}
      [] OTHER -> {}

\* The validation the builder runs on the assembled model: the exception
\* it raises, or "none".
ComponentValidate(name, sup, comps, pars, px, baseRaises) ==
    IF name = "DDK" THEN ValidateOutcome(comps, pars, px, baseRaises)
    ELSE IF RequiredParams(name) \subseteq sup THEN "none"
    ELSE "MissingParameter"

\* What building a model from the par file raises ("none" when a model is
\* returned): the BINARY name is looked up before anything is validated.
BuildOutcome(name, sup, comps, pars, px, baseRaises) ==
    IF name \notin RegisteredBinaries THEN "UnknownBinaryModel"
    ELSE ComponentValidate(name, sup, comps, pars, px, baseRaises)

InitBuilder ==
    /\ binary \in BinaryNames
    /\ IF binary = "DDK"
       THEN /\ supplied = {}
            /\ components \in SUBSET ComponentNames
            /\ params \in SUBSET PMNames
            /\ PX \in PXStates
            /\ superRaises \in BOOLEAN
       ELSE /\ supplied \in SUBSET BinaryParNames
            /\ components = {}
            /\ params = {}
            /\ PX = [kind |-> "absent", value |-> 0]
            /\ superRaises = FALSE
    /\ vpc = "idle"
    /\ raised = "none"
    /\ bfunc = "none"
    /\ braised = "none"
    /\ bmodel = "none"
    /\ AltIdle
    /\ KepIdle
    /\ GridIdle

\* One call of a builder function on the par file.
Build(func) ==
    /\ bfunc = "none"
    /\ bfunc' = func
    /\ braised' = BuildOutcome(binary, supplied, components, params, PX,
                               superRaises)
    /\ bmodel' = IF braised' = "none" THEN binary ELSE "none"
    /\ UNCHANGED <<binary, supplied>>
    /\ UNCHANGED <<ddkVars, altVars, kepVars, gridVars>>

GetModel == Build("get_model")

GetModelNew == Build("get_model_new")

NextBuilder == GetModel \/ GetModelNew

SpecBuilder == InitBuilder /\ [][NextBuilder]_vars

----------------------------------------------------------------------------
(* Properties of BinaryDDK.validate, checked under SpecValidate            *)

ValidateRan == vpc = "done" /\ ~superRaises

\* C6: validate() raises MissingParameter when the parent has an
\* AstrometryEquatorial component but lacks PMRA or PMDEC, and when it has
\* an AstrometryEcliptic component (and no AstrometryEquatorial) but lacks
\* PMELONG or PMELAT.  (Stated for the calls in which the base class's
\* validate() returned, so that the checks of this method are reached.)
C6_ProperMotionRequired ==
    ValidateRan =>
        /\ ( /\ "AstrometryEquatorial" \in components
             /\ ("PMRA" \notin params \/ "PMDEC" \notin params) )
               => raised = "MissingParameter"
        /\ ( /\ "AstrometryEcliptic" \in components
             /\ "AstrometryEquatorial" \notin components
             /\ ("PMELONG" \notin params \/ "PMELAT" \notin params) )
               => raised = "MissingParameter"

\* An ecliptic model with PMELONG but without PMELAT (and a valid PX) was
\* rejected with MissingParameter.
C6_Witness ==
    /\ ValidateRan
    /\ components = {"AstrometryEcliptic"}
    /\ "PMELONG" \in params /\ "PMELAT" \notin params
    /\ PX.kind = "value" /\ PX.value > 0
    /\ raised = "MissingParameter"

\* C7: validate() raises MissingParameter when the parent has no PX, raises
\* TimingModelError when PX exists with a value <= 0, and returns without
\* error only when PX exists with a strictly positive value.
C7_PXRequiredPositive ==
    vpc = "done" =>
        /\ (~superRaises /\ PX.kind = "absent") => raised = "MissingParameter"
        /\ (~superRaises /\ PX.kind = "value" /\ PX.value <= 0)
               => IsA(raised, "TimingModelError")
        /\ raised = "none" => (PX.kind = "value" /\ PX.value > 0)

\* A model with its proper motions and PX = 0 was rejected by the PX check.
C7_Witness ==
    /\ ValidateRan
    /\ ~ProperMotionMissing(components, params)
    /\ PX.kind = "value" /\ PX.value = 0
    /\ raised = "TimingModelError"

\* C8: validate() raises TimingModelError when the parent has a PX whose
\* value is None, and no other kind of error escapes for that input.
C8_UnsetPXIsTimingModelError ==
    (ValidateRan /\ PX.kind = "None") => IsA(raised, "TimingModelError")

----------------------------------------------------------------------------
(* Properties of BinaryDDK.alternative_solutions, checked under SpecAlt    *)

AltReturned == apc = "done" /\ araised = "none"

Mod360(pair) == <<pair[1] % 360, pair[2] % 360>>

\* KOM_0 = atan2(PMLAT_DDK, PMLONG_DDK) of the current model.
KOM_0 ==
    ArcTan2Deg(pm[PMLAT_DDK(components)], pm[PMLONG_DDK(components)])

\* The four solutions of the docstring, from the model's current values.
DocSolutions ==
    << <<KIN, KOM>>,
       <<KIN, 2 * KOM_0 - KOM - 180>>,
       <<180 - KIN, KOM + 180>>,
       <<180 - KIN, 2 * KOM_0 - KOM>> >>

\* C9: alternative_solutions() returns exactly four (KIN, KOM) pairs which,
\* compared modulo 360 degrees, are (KIN, KOM), (KIN, 2*KOM_0 - KOM - 180),
\* (180 - KIN, KOM + 180) and (180 - KIN, 2*KOM_0 - KOM): each of the four
\* is returned once (the list holds them in the order 1, 2, 4, 3).
C9_FourSolutions ==
    AltReturned =>
        /\ Len(solutions) = 4
        /\ \E f \in Permutations(1..4) :
              \A i \in 1..4 : Mod360(solutions[f[i]]) = Mod360(DocSolutions[i])

\* The call returned for a model whose four solutions are all different
\* and whose symmetry point KOM_0 is not zero.
C9_Witness ==
    /\ AltReturned
    /\ KOM_0 = 135
    /\ KIN = 70 /\ KOM = 270
    /\ Cardinality({Mod360(solutions[i]) : i \in 1..4}) = 4

\* C10: every KIN and every KOM value in every returned pair lies in
\* [0, 360), for every current value of KIN, KOM and the proper motions.
C10_AllWithinCircle ==
    AltReturned =>
        \A i \in 1..Len(solutions) :
            /\ 0 <= solutions[i][1] /\ solutions[i][1] < 360
            /\ 0 <= solutions[i][2] /\ solutions[i][2] < 360

----------------------------------------------------------------------------
(* Properties of the grid functions, checked under SpecGrid                *)

Serial == ret["grid_chisq"]
Derived == ret["grid_chisq_derived"]
Parallel == ret["grid_chisq_mp"]

\* C2: after grid_chisq or grid_chisq_derived returns, ftr.model is the very
\* model object it was before the call and its values and frozen flags are
\* unchanged; during the call the freezing and setting happen on another
\* object (the deep copy), never on the original.
C2_ModelRestored ==
    /\ gpc \in {"grid_chisq", "grid_chisq_derived"} =>
          /\ ftrModel # callModel
          /\ heap[callModel] = callState
    /\ (gpc = "idle" /\ (Serial.returned \/ Derived.returned)) =>
          /\ ftrModel = callModel
          /\ heap[ftrModel] = callState

\* Both serial functions have returned from grids of several points, on
\* which the fits froze M2 and moved F0 in the copy, and the fitter's model
\* still has M2 free and F0 at its starting value.
C2_Witness ==
    /\ gpc = "idle"
    /\ Serial.returned /\ Derived.returned
    /\ Size(Serial.chi2) = MaxGrid * MaxGrid
    /\ Serial.chi2[1][1] # Serial.chi2[1][2]
    /\ heap[ftrModel].value["F0"] = 0
    /\ ~heap[ftrModel].frozen["M2"]

\* The chi-squared of a fit that starts from the base fitter's model with
\* the gridded parameters frozen at v0 and v1.
FreshFitChi2(v0, v1) ==
    FitToas([value |-> [p \in ParNames |->
                          CASE p = parnames[1] -> v0
                            [] p = parnames[2] -> v1
                            [] OTHER -> heap[BaseId].value[p]],
             frozen |-> [p \in ParNames |->
                          CASE p = parnames[1] -> TRUE
                            [] p = parnames[2] -> TRUE
                            [] OTHER -> heap[BaseId].frozen[p]]]).chi2

\* C3: in grid_chisq_mp every returned chi2 entry is the result of fit_toas
\* on a private copy of the base fitter with the parameters of parnames
\* frozen and set to that grid point's values, stored at that grid point's
\* index, whatever ncpu is and in whatever order the workers start and
\* finish; the base fitter's model is not touched.
C3_IndependentFits ==
    /\ gpc = "grid_chisq_mp" =>
          /\ ftrModel = callModel
          /\ heap[ftrModel] = callState
    /\ Parallel.returned =>
          /\ Shape(Parallel.chi2) = Shape(MeshGrid(parvalues)[1])
          /\ \A j \in 1..Len(Parallel.chi2) : \A i \in 1..Len(Parallel.chi2[j]) :
                Parallel.chi2[j][i] =
                    FreshFitChi2(MeshGrid(parvalues)[1][j][i],
                                 MeshGrid(parvalues)[2][j][i])

\* grid_chisq_mp returned a grid of four points whose entries differ, from a
\* base fitter whose free parameter is away from the best fit.
C3_Witness ==
    /\ gpc = "idle"
    /\ Parallel.returned
    /\ Size(Parallel.chi2) = 4
    /\ Parallel.chi2[1][1] # Parallel.chi2[1][2]
    /\ Parallel.chi2[1][1] # Parallel.chi2[2][1]
    /\ heap[ftrModel].value["F0"] = 0

\* What C4 says of the array r returned for two gridded parameters.
GridLayout(r) ==
    /\ Len(r.chi2) = Len(parvalues[2])
    /\ \A j \in 1..Len(r.chi2) : Len(r.chi2[j]) = Len(parvalues[1])
    /\ BagCardinality(r.fits) = Len(parvalues[1]) * Len(parvalues[2])
    /\ \A j \in 1..Len(parvalues[2]) : \A i \in 1..Len(parvalues[1]) :
          CopiesIn(<<parvalues[1][i], parvalues[2][j], r.chi2[j][i]>>,
                   r.fits) = 1

\* C4: grid_chisq and grid_chisq_mp return an array of shape
\* (len(parvalues[1]), len(parvalues[0])) whose entry [j, i] is the
\* chi-squared of the fit performed with parnames[0] = parvalues[0][i] and
\* parnames[1] = parvalues[1][j], and every grid point is fitted exactly once.
C4_GridLayout ==
    /\ Serial.returned => GridLayout(Serial)
    /\ Parallel.returned => GridLayout(Parallel)

\* Both functions have returned a grid with two columns and one row.
C4_Witness ==
    /\ Serial.returned /\ Parallel.returned
    /\ Len(parvalues[1]) = 2 /\ Len(parvalues[2]) = 1
    /\ Shape(Serial.chi2) = <<1, 2>>
    /\ Shape(Parallel.chi2) = <<1, 2>>
    /\ Parallel.chi2[1][1] # Parallel.chi2[1][2]

\* C5: called with the same base fitter, parnames and parvalues, grid_chisq
\* and grid_chisq_mp return equal arrays.
C5_SerialEqualsParallel ==
    (Serial.returned /\ Parallel.returned) => Serial.chi2 = Parallel.chi2

----------------------------------------------------------------------------
(* Properties of get_model and get_model_new, checked under SpecBuilder    *)

====
